---- MODULE Spec2Model ----
(***************************************************************************)
(* A model of formatron's ref algebra (src/src/refs.js) and of the base    *)
(* data type's validation pipeline (src/unnamed/part_000, the DataType     *)
(* module).  Every operation of the library is a synchronous function of   *)
(* its arguments, so each specification draws the arguments of a call in   *)
(* its initial state and applies one operation per step:                   *)
(*   SpecList   setValue of the list-find, list-filter, list-map and       *)
(*              computed-view refs                                         *)
(*   SpecKey    setValue, then getValue, of the direct-key ref             *)
(*   SpecType   DataType.validate                                          *)
(*   SpecRef    isSingleRef / isMultiRef and equals / hashCode             *)
(*   SpecParse  parseRef, then getDisplay of the ref it returned           *)
(***************************************************************************)
EXTENDS Integers, Sequences, FiniteSets, TLC

VARIABLES
  pc,        \* which operation has run: "start" before the call
  list,      \* list refs: the Immutable.List handed to the call
  view,      \* list refs: the predicate view held by the ref
  newItem,   \* list refs: the item to write
  out,       \* what the call returned or threw ([threw, value])
  warned,    \* list refs: console.warn was called
  listType,  \* list refs: the kind of data type handed to the call
  listKind,  \* list refs: the kind of value handed as the list
  evaluated, \* list refs: the view was evaluated on an item
  container, \* direct-key ref: the value the ref is applied to
  key,       \* direct-key ref: this.ref
  childValue,\* direct-key ref: the value to write
  got,       \* what the call that followed returned or threw
  refA,      \* refs: the ref a method is called on
  refB,      \* refs: the ref handed to equals
  field,     \* parseRef: its argument
  options,   \* data type: the options handed to the constructor
  dataType,  \* data type: the instance the constructor built
  value,     \* data type: the value handed to validate
  callback,  \* data type: the continuation handed to validate
  cbCalled,  \* data type: the continuation was invoked
  childField,\* descent helpers: the child field
  refs,      \* descent helpers: the remaining ref chain
  oldValue,  \* descent helpers: the value at the child
  newValue,  \* descent helpers: the value to write
  props,     \* editable table: this.props
  state,     \* editable table: this.state
  submitted, \* editable table: the call the last onSubmit made to props.onSubmit
  rowIndex,  \* editable table: the row of the last DataRenderer.onBlur or onSubmit
  cellRef,   \* editable table: the ref of the last DataRenderer.onBlur
  batched    \* editable table: the last DataRenderer.onBlur ran inside a React batch

listVars == <<list, view, newItem, warned, listType, listKind, evaluated>>
keyVars == <<container, key, childValue>>
typeVars == <<options, dataType, value, callback, cbCalled>>
refVars == <<refA, refB>>
parseVars == <<field>>
nextVars == <<childField, refs, oldValue, newValue>>
tableVars == <<props, state, submitted, rowIndex, cellRef, batched>>

----------------------------------------------------------------------------
(* Bounds *)
MaxLen == 3      \* longest list handed to a list ref
NumItems == 3    \* distinct items a list may hold
NumKeys == 2     \* distinct non-empty keys of a container
NumVals == 2     \* distinct values a container entry may hold
MaxSize == 1     \* most entries of an object or collection given to a data type
NumViews == 2    \* distinct view instances refs are built from
MaxFieldLen == 5 \* longest string handed to parseRef
MaxRefs == 2     \* longest ref chain left for a child field
NumRows == 1     \* rows of the editable table

----------------------------------------------------------------------------
(* JavaScript values.  Every value is a record [t, v]: t is its kind and   *)
(* v what tells two values of that kind apart.                             *)
Undefined == [t |-> "undefined", v |-> 0]
Null == [t |-> "null", v |-> 0]
Num(n) == [t |-> "number", v |-> n]
Item(n) == [t |-> "item", v |-> n]
ListItem == [t |-> "list", v |-> 0]
(* a string is the sequence of its characters *)
Str(s) == [t |-> "string", v |-> s]
(* an Immutable.Map is the function from its keys to its entries *)
Map(m) == [t |-> "Map", v |-> m]

NaN == [t |-> "NaN", v |-> 0]
(* a plain JavaScript object or array with n entries *)
PlainObj(n) == [t |-> "object", v |-> n]
(* an Immutable collection with n entries; origin tells apart the one the  *)
(* caller holds from the one Immutable.fromJS builds, and the empty        *)
(* collection is one shared instance                                       *)
Coll(origin, n) ==
  [t |-> "Immutable", v |-> IF n = 0 THEN <<"empty", 0>> ELSE <<origin, n>>]
Size(x) == x.v[2]
(* a function that returns r when called *)
Fn(r) == [t |-> "function", v |-> r]

Bool(b) == [t |-> "boolean", v |-> b]

(* a === b *)
StrictEquals(a, b) == a.t # "NaN" /\ a = b

(* JavaScript's ToBoolean, negated: !x *)
Falsy(x) ==
  \/ x.t \in {"undefined", "null", "NaN"}
  \/ x.t = "string" /\ x.v = <<>>
  \/ x.t = "number" /\ x.v = 0
  \/ x.t = "boolean" /\ x.v = FALSE

(* a call either returns a value or throws an Error *)
Returned(x) == [threw |-> FALSE, value |-> x]
Threw(msg) == [threw |-> TRUE, value |-> msg]
NotCalled == [threw |-> FALSE, value |-> "not called"]

Items == {Item(n) : n \in 1..NumItems}
NewItems == Items \cup {Item(0), ListItem}
Lists == UNION {[1..n -> Items] : n \in 0..MaxLen}
(* a view is evaluated by the injected evaluator; it is described by its   *)
(* identity and by the set of items on which it evaluates truthy           *)
Views == [uniqueId : {1}, truthy : SUBSET Items]

----------------------------------------------------------------------------
(* refs.js: list refs *)

(* List.isList(newItem) *)
IsList(x) == x.t = "list"

(* valueRenderers.getValue(this.view, new RenderData(itemType, item, ..)) *)
applyView(vw, item) == item \in vw.truthy

(* a plausible slip: the last passing index instead of the first *)
findLastIndex(l, vw) ==
  IF \E i \in 1..Len(l) : applyView(vw, l[i])
    THEN (CHOOSE i \in 1..Len(l) :
            /\ applyView(vw, l[i])
            /\ \A j \in (i+1)..Len(l) : ~applyView(vw, l[j])) - 1
    ELSE -1

(* Immutable List.findIndex: the first index (0-based) whose item passes,  *)
(* or -1                                                                   *)
findIndex(l, vw) ==
  IF \E i \in 1..Len(l) : applyView(vw, l[i])
    THEN (CHOOSE i \in 1..Len(l) :
            /\ applyView(vw, l[i])
            /\ \A j \in 1..(i-1) : ~applyView(vw, l[j])) - 1
    ELSE -1

(* Immutable List.set(index, x) for 0 <= index < size, and List.push(x) *)
ListSet(l, index, x) == [l EXCEPT ![index + 1] = x]
ListPush(l, x) == Append(l, x)

(* ImmutableListFindRef.setValue *)
FindSetValue(l, vw, x) ==
  LET index == findIndex(l, vw)
  IN  IF index >= 0 THEN Returned(ListSet(l, index, x))
                    ELSE Returned(ListPush(l, x))

(* ImmutableListFilterRef.setValue: the indexes whose item passes, then    *)
(* list.map((item, index) => indexes.includes(index) ? newItem : index)    *)
FilterIndexes(l, vw) == {i - 1 : i \in {j \in 1..Len(l) : applyView(vw, l[j])}}

FilterSetValue(l, vw, x) ==
  LET indexes == FilterIndexes(l, vw)
  IN  Returned([i \in 1..Len(l) |->
                  IF (i - 1) \in indexes THEN x ELSE Num(i - 1)])

(* ImmutableListRef.setValue, which the find, filter and map refs override *)
ListSetValue(l, vw, x) == Returned([i \in 1..Len(l) |-> x])

(* a plausible slip: the override is missing and the inherited setValue runs *)
MapSetValueInherited(l, vw, x) == ListSetValue(l, vw, x)

(* ImmutableListMapRef.setValue *)
MapSetValue(l, vw, x) == Threw("Not yet implemented")

(* ImmutableViewRef.setValue() *)
ViewSetValue(l, vw, x) == Threw("Not yet implemented")

(* The data type handed to a list ref is a Types.data.list ("list") or a   *)
(* type without getItemType ("scalar"); the value handed as the list is an *)
(* Immutable.List ("List"), a plain JavaScript array ("array") or null.    *)
ListTypes == {"list", "scalar"}
ListKinds == {"List", "array", "null"}

(* x instanceof Types.data.list *)
InstanceofList(x) == x = "list"
(* !dataType: a boolean, whatever the data type is *)
Negated(type) == "boolean"

(* ImmutableListRef.checkValidData: `!dataType instanceof Types.data.list` *)
(* is (!dataType) instanceof Types.data.list                               *)
checkValidData(type, kind) ==
  IF InstanceofList(Negated(type))
    THEN Threw("Cannot reference a list with a non-list based data type")
  ELSE IF kind = "null" \/ kind # "List"
    THEN Threw("Cannot reference a non-list with a list ref")
  ELSE Returned(Undefined)

(* listType.getItemType(): a TypeError on a type that has no such method *)
getItemType(type) ==
  IF type = "list" THEN Returned("itemType") ELSE Threw("TypeError")

(* list.find / list.filter / list.map with the view as the callback *)
ListMethod(method, l, vw) ==
  CASE method = "find" ->
         (IF findIndex(l, vw) >= 0 THEN l[findIndex(l, vw) + 1] ELSE Undefined)
    [] method = "filter" -> SelectSeq(l, LAMBDA item : applyView(vw, item))
    [] method = "map" -> [i \in 1..Len(l) |-> Bool(applyView(vw, l[i]))]

(* ImmutableListRef.getValue in a class whose static method is `method`:   *)
(* what it returns and whether the view was evaluated                      *)
ListGetValue(method, type, kind, l, vw) ==
  IF checkValidData(type, kind).threw
    THEN [result |-> checkValidData(type, kind), evaluated |-> FALSE]
  ELSE IF getItemType(type).threw
    THEN [result |-> getItemType(type), evaluated |-> FALSE]
  ELSE [result |-> Returned(ListMethod(method, l, vw)),
        evaluated |-> Len(l) > 0]

(* ImmutableListFindRef.setValue on any type and value: what it returns,   *)
(* whether the view was evaluated, and the list afterwards (push grows a   *)
(* plain array in place and returns its new length; an array has no set)   *)
FindRefSetValue(type, kind, l, vw, x) ==
  IF getItemType(type).threw
    THEN [result |-> getItemType(type), evaluated |-> FALSE, list |-> l]
  ELSE IF kind = "null"
    THEN [result |-> Threw("TypeError"), evaluated |-> FALSE, list |-> l]
  ELSE IF kind = "array"
    THEN IF findIndex(l, vw) >= 0
           THEN [result |-> Threw("TypeError"), evaluated |-> TRUE, list |-> l]
           ELSE [result |-> Returned(Num(Len(l) + 1)),
                 evaluated |-> Len(l) > 0, list |-> ListPush(l, x)]
  ELSE [result |-> FindSetValue(l, vw, x), evaluated |-> Len(l) > 0,
        list |-> l]

(* ImmutableListFilterRef.setValue on any type and value; map, filter and  *)
(* includes are methods of a plain array too                               *)
FilterRefSetValue(type, kind, l, vw, x) ==
  IF getItemType(type).threw
    THEN [result |-> getItemType(type), evaluated |-> FALSE]
  ELSE IF kind = "null"
    THEN [result |-> Threw("TypeError"), evaluated |-> FALSE]
  ELSE [result |-> FilterSetValue(l, vw, x), evaluated |-> Len(l) > 0]

(* the variables of the other operations, while the list refs run *)
RefIdle ==
  /\ refA = Null
  /\ refB = Null

ParseIdle == field = Undefined

NextIdle ==
  /\ childField = Undefined
  /\ refs = <<>>
  /\ oldValue = Undefined
  /\ newValue = Undefined

TableIdle ==
  /\ props = Undefined
  /\ state = Undefined
  /\ submitted = Undefined
  /\ rowIndex = 0
  /\ cellRef = Undefined
  /\ batched = FALSE

TypeIdle ==
  /\ options = Undefined
  /\ dataType = Undefined
  /\ value = Undefined
  /\ callback = Undefined
  /\ cbCalled = FALSE

KeyIdle ==
  /\ container = Null
  /\ key = Undefined
  /\ childValue = Undefined

InitList ==
  /\ pc = "start"
  /\ listType \in ListTypes
  /\ listKind \in ListKinds
  /\ list \in (IF listKind = "null" THEN {<<>>} ELSE Lists)
  /\ evaluated = FALSE
  /\ view \in Views
  /\ newItem \in NewItems
  /\ out = NotCalled
  /\ got = NotCalled
  /\ warned = FALSE
  /\ KeyIdle
  /\ TypeIdle
  /\ RefIdle
  /\ ParseIdle
  /\ NextIdle
  /\ TableIdle

ListFindRef_setValue ==
  /\ pc = "start"
  /\ pc' = "find.setValue"
  /\ out' = FindRefSetValue(listType, listKind, list, view, newItem).result
  /\ evaluated' =
       FindRefSetValue(listType, listKind, list, view, newItem).evaluated
  /\ list' = FindRefSetValue(listType, listKind, list, view, newItem).list
  /\ UNCHANGED <<view, newItem, warned, listType, listKind>>
  /\ UNCHANGED got
  /\ UNCHANGED keyVars
  /\ UNCHANGED typeVars
  /\ UNCHANGED parseVars
  /\ UNCHANGED nextVars
  /\ UNCHANGED tableVars
  /\ UNCHANGED refVars

ListFilterRef_setValue ==
  /\ pc = "start"
  /\ pc' = "filter.setValue"
  /\ warned' = IsList(newItem)
  /\ out' = FilterRefSetValue(listType, listKind, list, view, newItem).result
  /\ evaluated' =
       FilterRefSetValue(listType, listKind, list, view, newItem).evaluated
  /\ UNCHANGED <<list, view, newItem, listType, listKind>>
  /\ UNCHANGED got
  /\ UNCHANGED keyVars
  /\ UNCHANGED typeVars
  /\ UNCHANGED parseVars
  /\ UNCHANGED nextVars
  /\ UNCHANGED tableVars
  /\ UNCHANGED refVars

ListMapRef_setValue ==
  /\ pc = "start"
  /\ pc' = "map.setValue"
  /\ out' = MapSetValue(list, view, newItem)
  /\ UNCHANGED <<list, view, newItem, warned, listType, listKind, evaluated>>
  /\ UNCHANGED got
  /\ UNCHANGED keyVars
  /\ UNCHANGED typeVars
  /\ UNCHANGED parseVars
  /\ UNCHANGED nextVars
  /\ UNCHANGED tableVars
  /\ UNCHANGED refVars

(* ImmutableViewRef.setValue, called with the list as the value *)
ViewRef_setValue ==
  /\ pc = "start"
  /\ pc' = "view.setValue"
  /\ out' = ViewSetValue(list, view, newItem)
  /\ UNCHANGED <<list, view, newItem, warned, listType, listKind, evaluated>>
  /\ UNCHANGED got
  /\ UNCHANGED keyVars
  /\ UNCHANGED typeVars
  /\ UNCHANGED parseVars
  /\ UNCHANGED nextVars
  /\ UNCHANGED tableVars
  /\ UNCHANGED refVars

ListFindRef_getValue ==
  /\ pc = "start"
  /\ pc' = "find.getValue"
  /\ out' = ListGetValue("find", listType, listKind, list, view).result
  /\ evaluated' = ListGetValue("find", listType, listKind, list, view).evaluated
  /\ UNCHANGED <<list, view, newItem, warned, listType, listKind>>
  /\ UNCHANGED got
  /\ UNCHANGED keyVars
  /\ UNCHANGED typeVars
  /\ UNCHANGED parseVars
  /\ UNCHANGED nextVars
  /\ UNCHANGED tableVars
  /\ UNCHANGED refVars

ListFilterRef_getValue ==
  /\ pc = "start"
  /\ pc' = "filter.getValue"
  /\ out' = ListGetValue("filter", listType, listKind, list, view).result
  /\ evaluated' = ListGetValue("filter", listType, listKind, list, view).evaluated
  /\ UNCHANGED <<list, view, newItem, warned, listType, listKind>>
  /\ UNCHANGED got
  /\ UNCHANGED keyVars
  /\ UNCHANGED typeVars
  /\ UNCHANGED parseVars
  /\ UNCHANGED nextVars
  /\ UNCHANGED tableVars
  /\ UNCHANGED refVars

ListMapRef_getValue ==
  /\ pc = "start"
  /\ pc' = "map.getValue"
  /\ out' = ListGetValue("map", listType, listKind, list, view).result
  /\ evaluated' = ListGetValue("map", listType, listKind, list, view).evaluated
  /\ UNCHANGED <<list, view, newItem, warned, listType, listKind>>
  /\ UNCHANGED got
  /\ UNCHANGED keyVars
  /\ UNCHANGED typeVars
  /\ UNCHANGED parseVars
  /\ UNCHANGED nextVars
  /\ UNCHANGED tableVars
  /\ UNCHANGED refVars

NextList ==
  \/ ListFindRef_setValue
  \/ ListFilterRef_setValue
  \/ ListMapRef_setValue
  \/ ViewRef_setValue
  \/ ListFindRef_getValue
  \/ ListFilterRef_getValue
  \/ ListMapRef_getValue

vars == <<pc, out, got, listVars, keyVars, typeVars, refVars, parseVars,
         nextVars, tableVars>>

SpecList == InitList /\ [][NextList]_vars

----------------------------------------------------------------------------
(* refs.js: the direct-key ref, ImmutableRef *)

(* the string of n characters "k"; KeyStr(0) is the empty string *)
KeyStr(n) == Str([i \in 1..n |-> "k"])
Keys == {KeyStr(n) : n \in 1..NumKeys}
EntryValues == {Num(n) : n \in 1..NumVals}
Maps == {Map(m) : m \in UNION {[D -> EntryValues] : D \in SUBSET Keys}}
Containers == Maps \cup {Null, Undefined}
RefKeys == Keys \cup {KeyStr(0), Undefined}
ChildValues == EntryValues \cup {Num(0), Undefined}

(* Immutable Map.get(k): the entry, or undefined when there is none *)
MapGet(c, k) == IF k \in DOMAIN c.v THEN c.v[k] ELSE Undefined

(* Immutable Map.set(k, x): a new Map that differs at k alone *)
MapSet(c, k, x) ==
  Map([j \in (DOMAIN c.v) \cup {k} |-> IF j = k THEN x ELSE c.v[j]])

(* ImmutableRef.getValue *)
RefGetValue(ref, dataValue) ==
  IF Falsy(dataValue) THEN Returned(Null)
  ELSE IF Falsy(ref) THEN Returned(dataValue)
  ELSE Returned(MapGet(dataValue, ref))

(* a plausible slip: the Map returned by set is dropped *)
RefSetValueDropped(ref, dataValue, x) ==
  IF Falsy(dataValue) THEN Threw("Cannot set value for on a null object")
  ELSE Returned(dataValue)

(* ImmutableRef.setValue *)
RefSetValue(ref, dataValue, x) ==
  IF Falsy(dataValue) THEN Threw("Cannot set value for on a null object")
  ELSE IF Falsy(ref) THEN Returned(dataValue)
  ELSE Returned(MapSet(dataValue, ref, x))

ListIdle ==
  /\ list = <<>>
  /\ view = [uniqueId |-> 1, truthy |-> {}]
  /\ newItem = Item(0)
  /\ warned = FALSE
  /\ listType = "list"
  /\ listKind = "List"
  /\ evaluated = FALSE

InitKey ==
  /\ pc = "start"
  /\ container \in Containers
  /\ key \in RefKeys
  /\ childValue \in ChildValues
  /\ out = NotCalled
  /\ got = NotCalled
  /\ ListIdle
  /\ TypeIdle
  /\ RefIdle
  /\ ParseIdle
  /\ NextIdle
  /\ TableIdle

Ref_setValue ==
  /\ pc = "start"
  /\ pc' = "ref.setValue"
  /\ out' = RefSetValue(key, container, childValue)
  /\ UNCHANGED <<container, key, childValue, got>>
  /\ UNCHANGED listVars
  /\ UNCHANGED typeVars
  /\ UNCHANGED parseVars
  /\ UNCHANGED nextVars
  /\ UNCHANGED tableVars
  /\ UNCHANGED refVars

(* getValue through the same ref, on the value setValue returned *)
Ref_getValue ==
  /\ pc = "ref.setValue"
  /\ ~out.threw
  /\ pc' = "ref.getValue"
  /\ got' = RefGetValue(key, out.value)
  /\ UNCHANGED <<container, key, childValue, out>>
  /\ UNCHANGED listVars
  /\ UNCHANGED typeVars
  /\ UNCHANGED parseVars
  /\ UNCHANGED nextVars
  /\ UNCHANGED tableVars
  /\ UNCHANGED refVars

NextKey ==
  \/ Ref_setValue
  \/ Ref_getValue

SpecKey == InitKey /\ [][NextKey]_vars

----------------------------------------------------------------------------
(* The base data type: DataType and ImmutableDataType *)

(* validationErrors.required *)
required == "This field is required"

(* new ValidationError(message, type, value) *)
ValidationError(message, type, x) ==
  [t |-> "ValidationError",
   v |-> [message |-> message, type |-> type, value |-> x]]

(* Immutable.fromJS: a plain object or array becomes a new collection;     *)
(* anything else is returned as it is                                      *)
fromJS(x) == IF x.t = "object" THEN Coll("fromJS", x.v) ELSE x

(* the constructor: this.options = Immutable.fromJS(options || {}) *)
NewDataType(composite, opts) ==
  [composite |-> composite,
   options |-> [k \in DOMAIN opts |-> fromJS(opts[k])]]

isRequired(type) == type.options.required.v
isGenerated(type) == type.options.generated.v

(* getDefaultValue(defaultValue = null) *)
getDefaultValue(type, defaultValue) ==
  LET optionsDefaultValue == type.options.defaultValue
  IN  IF optionsDefaultValue.t = "undefined"
        THEN (IF defaultValue.t = "undefined" THEN Null ELSE defaultValue)
        ELSE optionsDefaultValue

(* a plausible slip: null is not taken for "no value" *)
DataType_hasValueNullPresent(type, x, checkDefault) ==
  ~ \/ x.t = "undefined"
    \/ StrictEquals(x, getDefaultValue(type, Undefined)) /\ checkDefault

(* DataType.hasValue(value, checkDefault = true) *)
DataType_hasValue(type, x, checkDefault) ==
  ~ \/ x.t = "undefined"
    \/ x.t = "null"
    \/ StrictEquals(x, getDefaultValue(type, Undefined)) /\ checkDefault

(* ImmutableDataType.hasValue: super.hasValue, then value && value.size > 0 *)
ImmutableDataType_hasValue(type, x, checkDefault) ==
  IF ~DataType_hasValue(type, x, checkDefault) THEN FALSE
  ELSE ~Falsy(x) /\ x.t = "Immutable" /\ Size(x) > 0

(* this.hasValue *)
hasValue(type, x, checkDefault) ==
  IF type.composite THEN ImmutableDataType_hasValue(type, x, checkDefault)
                    ELSE DataType_hasValue(type, x, checkDefault)

(* values.find(value => typeof value != 'undefined') *)
RECURSIVE FindDefined(_)
FindDefined(values) ==
  IF values = <<>> THEN Undefined
  ELSE IF Head(values).t # "undefined" THEN Head(values)
  ELSE FindDefined(Tail(values))

(* a plausible slip: the default is not substituted *)
getValueNoDefault(type, x, defaultValue) == x

(* DataType.getValue(value, defaultValue); ImmutableDataType.getValue      *)
(* without a ref is super.getValue(value)                                  *)
getValue(type, x, defaultValue) ==
  LET values == IF isGenerated(type)
                  THEN <<x>>
                  ELSE <<x, getDefaultValue(type, defaultValue)>>
  IN  FindDefined(values)

(* a plausible slip: the early return for the default value is missing *)
validateNoShortCircuit(type, x, cb) ==
  LET val == getValue(type, x, Undefined)
  IN  IF ~hasValue(type, val, FALSE)
        THEN IF isGenerated(type)
               THEN [result |-> Returned(Undefined), called |-> FALSE]
             ELSE IF isRequired(type)
               THEN [result |-> Returned(ValidationError(required, type, val)),
                     called |-> FALSE]
             ELSE [result |-> Returned(Undefined), called |-> FALSE]
      ELSE IF ~Falsy(cb)
        THEN [result |-> Returned(cb.v), called |-> TRUE]
      ELSE [result |-> Returned(Undefined), called |-> FALSE]

(* DataType.validate(value, callback): what it returns, and whether the    *)
(* callback was invoked                                                    *)
validate(type, x, cb) ==
  LET val == getValue(type, x, Undefined)
  IN  IF StrictEquals(val, getDefaultValue(type, Undefined))
           /\ hasValue(type, val, FALSE)
        THEN [result |-> Returned(Undefined), called |-> FALSE]
      ELSE IF ~hasValue(type, val, FALSE)
        THEN IF isGenerated(type)
               THEN [result |-> Returned(Undefined), called |-> FALSE]
             ELSE IF isRequired(type)
               THEN [result |-> Returned(ValidationError(required, type, val)),
                     called |-> FALSE]
             ELSE [result |-> Returned(Undefined), called |-> FALSE]
      ELSE IF ~Falsy(cb)
        THEN [result |-> Returned(cb.v), called |-> TRUE]
      ELSE [result |-> Returned(Undefined), called |-> FALSE]

JSValues ==
  {Undefined, Null, NaN, Bool(FALSE), Str(<<>>)}
    \cup {Num(n) : n \in 0..NumVals}
    \cup {PlainObj(n) : n \in 0..MaxSize}
    \cup {Coll("held", n) : n \in 0..MaxSize}
Options ==
  [required : {Bool(b) : b \in BOOLEAN},
   generated : {Bool(b) : b \in BOOLEAN},
   defaultValue : JSValues]
Callbacks == {Undefined, Fn(Undefined), Fn(Str(<<"e">>))}

InitType ==
  /\ pc = "start"
  /\ options \in Options
  /\ \E composite \in BOOLEAN : dataType = NewDataType(composite, options)
  /\ value \in JSValues
  /\ callback \in Callbacks
  /\ cbCalled = FALSE
  /\ out = NotCalled
  /\ got = NotCalled
  /\ ListIdle
  /\ KeyIdle
  /\ RefIdle
  /\ ParseIdle
  /\ NextIdle
  /\ TableIdle

DataType_validate ==
  /\ pc = "start"
  /\ pc' = "validate"
  /\ out' = validate(dataType, value, callback).result
  /\ cbCalled' = validate(dataType, value, callback).called
  /\ UNCHANGED <<options, dataType, value, callback>>
  /\ UNCHANGED listVars
  /\ UNCHANGED got
  /\ UNCHANGED keyVars
  /\ UNCHANGED refVars
  /\ UNCHANGED parseVars
  /\ UNCHANGED nextVars
  /\ UNCHANGED tableVars

NextType ==
  \/ DataType_validate

SpecType == InitType /\ [][NextType]_vars

----------------------------------------------------------------------------
(* refs.js: the Ref classes, their multiplicity, equality and hash *)

(* class X extends Super(X) *)
Super(class) ==
  CASE class = "ImmutableRef" -> "Ref"
    [] class = "ImmutableViewRef" -> "ImmutableRef"
    [] class = "ImmutableListRef" -> "ImmutableRef"
    [] class = "ImmutableListFindRef" -> "ImmutableListRef"
    [] class = "ImmutableListFilterRef" -> "ImmutableListRef"
    [] class = "ImmutableListMapRef" -> "ImmutableListRef"

(* the class whose definition of a method an instance of `class` runs,     *)
(* given the classes that define the method                                *)
RECURSIVE Resolve(_, _)
Resolve(class, defining) ==
  IF class \in defining THEN class ELSE Resolve(Super(class), defining)

(* new ImmutableRef(ref); the other constructors call super() without an   *)
(* argument and set this.view                                              *)
NewRef(class, arg) ==
  IF class = "ImmutableRef"
    THEN [class |-> class, ref |-> arg, view |-> Undefined]
    ELSE [class |-> class, ref |-> Undefined, view |-> arg]

(* a view instance, as the refs see it *)
View(w) == [t |-> "view", v |-> w]

(* view.uniqueId: a string has no such property; reading it from undefined *)
(* or null is a TypeError                                                  *)
uniqueId(vw) ==
  IF vw.t \in {"undefined", "null"}
    THEN Threw("TypeError")
    ELSE IF vw.t = "view" THEN Returned(Num(vw.v.uniqueId))
    ELSE Returned(Undefined)

(* a == b, for the values refs compare *)
LooseEquals(a, b) ==
  IF a.t \in {"undefined", "null"} \/ b.t \in {"undefined", "null"}
    THEN a.t \in {"undefined", "null"} /\ b.t \in {"undefined", "null"}
  ELSE IF a.t = b.t THEN StrictEquals(a, b)
  ELSE \/ a = Str(<<>>) /\ b = Num(0)
       \/ a = Num(0) /\ b = Str(<<>>)

(* a plausible slip: the list-filter ref does not override isSingleRef *)
isSingleRefNoFilter(r) ==
  LET m == Resolve(r.class, {"ImmutableRef", "ImmutableListMapRef"})
  IN  CASE m = "ImmutableRef" -> TRUE
        [] m = "ImmutableListMapRef" -> FALSE

(* ImmutableRef.isSingleRef and its overrides *)
isSingleRef(r) ==
  LET m == Resolve(r.class, {"ImmutableRef", "ImmutableListFilterRef",
                             "ImmutableListMapRef"})
  IN  CASE m = "ImmutableRef" -> TRUE
        [] m = "ImmutableListFilterRef" -> FALSE
        [] m = "ImmutableListMapRef" -> FALSE

(* ImmutableRef.isMultiRef *)
isMultiRef(r) == ~isSingleRef(r)

(* String.charCodeAt for the characters of the model *)
charCode(c) ==
  CASE c = "k" -> 107 [] c = "r" -> 114 [] c = "q" -> 113 [] c = "f" -> 102
    [] c = "m" -> 109 [] c = "v" -> 118 [] c = "x" -> 120 [] c = ":" -> 58
    [] c = "=" -> 61 [] c = "e" -> 101 [] OTHER -> 63

(* Immutable's hashString: hashed = (31 * hashed + charCodeAt(i)) | 0.     *)
(* For a string of fewer than six characters the sum stays below 2^30,     *)
(* where neither | 0 nor the final smi() changes it.                       *)
RECURSIVE hashString(_, _)
hashString(str, hashed) ==
  IF str = <<>> THEN hashed
  ELSE hashString(Tail(str), 31 * hashed + charCode(Head(str)))

(* Immutable.hash: 0 for undefined and null, the integer itself for a      *)
(* small integer, hashString for a string                                  *)
hash(x) ==
  IF x.t \in {"undefined", "null"} THEN 0
  ELSE IF x.t = "number" THEN x.v
  ELSE hashString(x.v, 0)

(* a plausible slip: views compared by their contents, not their identity *)
equalsByContents(a, b) ==
  LET m == Resolve(a.class, {"Ref", "ImmutableRef", "ImmutableViewRef",
                             "ImmutableListRef"})
  IN  IF m = "Ref" THEN Returned(FALSE)
      ELSE IF m = "ImmutableRef" THEN Returned(LooseEquals(a.ref, b.ref))
      ELSE IF uniqueId(a.view).threw \/ uniqueId(b.view).threw
        THEN Threw("TypeError")
      ELSE IF a.view.t = "view" /\ b.view.t = "view"
        THEN Returned(a.view.v.truthy = b.view.v.truthy)
      ELSE Returned(a.view = b.view)

(* a.equals(b) *)
equals(a, b) ==
  LET m == Resolve(a.class, {"Ref", "ImmutableRef", "ImmutableViewRef",
                             "ImmutableListRef"})
  IN  IF m = "Ref" THEN Returned(FALSE)
      ELSE IF m = "ImmutableRef" THEN Returned(LooseEquals(a.ref, b.ref))
      ELSE IF uniqueId(a.view).threw \/ uniqueId(b.view).threw
        THEN Threw("TypeError")
      ELSE Returned(LooseEquals(uniqueId(a.view).value, uniqueId(b.view).value))

(* a.hashCode() *)
hashCode(a) ==
  LET m == Resolve(a.class, {"Ref", "ImmutableRef", "ImmutableViewRef",
                             "ImmutableListRef"})
  IN  IF m = "Ref" THEN Returned(0)
      ELSE IF m = "ImmutableRef" THEN Returned(hash(a.ref))
      ELSE IF uniqueId(a.view).threw THEN Threw("TypeError")
      ELSE Returned(hash(uniqueId(a.view).value))

ViewClasses ==
  {"ImmutableViewRef", "ImmutableListRef", "ImmutableListFindRef",
   "ImmutableListFilterRef", "ImmutableListMapRef"}
(* the views refs are built from: view instances, of which two may have    *)
(* the same contents, raw view ids (strings), and no view at all           *)
RefViews ==
  {View(w) : w \in [uniqueId : 1..NumViews, truthy : {{}, {Item(1)}}]}
    \cup {KeyStr(1), KeyStr(2), Undefined}
Refs ==
  {NewRef("ImmutableRef", k) : k \in RefKeys}
    \cup {NewRef(c, w) : c \in ViewClasses, w \in RefViews}

InitRef ==
  /\ pc = "start"
  /\ refA \in Refs
  /\ refB \in Refs
  /\ out = NotCalled
  /\ got = NotCalled
  /\ ListIdle
  /\ TypeIdle
  /\ KeyIdle
  /\ ParseIdle
  /\ NextIdle
  /\ TableIdle

Ref_isSingleRef ==
  /\ pc = "start"
  /\ pc' = "isSingleRef"
  /\ out' = Returned(isSingleRef(refA))
  /\ UNCHANGED <<refA, refB, got>>
  /\ UNCHANGED keyVars
  /\ UNCHANGED listVars
  /\ UNCHANGED typeVars
  /\ UNCHANGED parseVars
  /\ UNCHANGED nextVars
  /\ UNCHANGED tableVars

Ref_isMultiRef ==
  /\ pc = "isSingleRef"
  /\ pc' = "isMultiRef"
  /\ got' = Returned(isMultiRef(refA))
  /\ UNCHANGED <<refA, refB, out>>
  /\ UNCHANGED keyVars
  /\ UNCHANGED listVars
  /\ UNCHANGED typeVars
  /\ UNCHANGED parseVars
  /\ UNCHANGED nextVars
  /\ UNCHANGED tableVars

(* refA.equals(refB) *)
Ref_equals ==
  /\ pc = "start"
  /\ pc' = "equals"
  /\ out' = equals(refA, refB)
  /\ UNCHANGED <<refA, refB, got>>
  /\ UNCHANGED keyVars
  /\ UNCHANGED listVars
  /\ UNCHANGED typeVars
  /\ UNCHANGED parseVars
  /\ UNCHANGED nextVars
  /\ UNCHANGED tableVars

(* refA.hashCode() and refB.hashCode() *)
Ref_hashCode ==
  /\ pc = "equals"
  /\ pc' = "hashCode"
  /\ got' = <<hashCode(refA), hashCode(refB)>>
  /\ UNCHANGED <<refA, refB, out>>
  /\ UNCHANGED keyVars
  /\ UNCHANGED listVars
  /\ UNCHANGED typeVars
  /\ UNCHANGED parseVars
  /\ UNCHANGED nextVars
  /\ UNCHANGED tableVars

(* refB.equals(refA), after refA.equals(refB) *)
Ref_equalsBack ==
  /\ pc = "equals"
  /\ pc' = "equalsBack"
  /\ got' = equals(refB, refA)
  /\ UNCHANGED <<refA, refB, out>>
  /\ UNCHANGED keyVars
  /\ UNCHANGED listVars
  /\ UNCHANGED typeVars
  /\ UNCHANGED parseVars
  /\ UNCHANGED nextVars
  /\ UNCHANGED tableVars

NextRef ==
  \/ Ref_isSingleRef
  \/ Ref_isMultiRef
  \/ Ref_equals
  \/ Ref_hashCode
  \/ Ref_equalsBack

SpecRef == InitRef /\ [][NextRef]_vars

----------------------------------------------------------------------------
(* refs.js: parseRef and the views it builds from a shorthand string *)

(* a Ref instance handed about as a JavaScript value *)
RefValue(r) == [t |-> "Ref", v |-> r]
(* a structured ref descriptor: field.get('type'), the key of a value     *)
(* ref, the type of a list ref's nested descriptor, and the nested view    *)
(* descriptor                                                              *)
Descriptor(type, val, listOp, viewDescriptor) ==
  [t |-> "descriptor",
   v |-> [type |-> type, value |-> val, listType |-> listOp,
          view |-> viewDescriptor]]

(* Types.parseField(Types.VIEW, descriptor): the view the schema loader    *)
(* builds from a view descriptor                                           *)
parseField(viewDescriptor) == [t |-> "view.parsed", v |-> viewDescriptor]

(* new Types.view.value({value}) *)
ValueView(x) == [t |-> "view.value", v |-> [value |-> x]]

(* String.split('=') *)
RECURSIVE Split(_)
Split(str) ==
  IF \E i \in 1..Len(str) : str[i] = "="
    THEN LET i == CHOOSE i \in 1..Len(str) :
                    str[i] = "=" /\ \A j \in 1..(i-1) : str[j] # "="
         IN  <<SubSeq(str, 1, i - 1)>> \o Split(SubSeq(str, i + 1, Len(str)))
    ELSE <<str>>

(* the characters a template literal writes for a string or for undefined *)
ToChars(x) ==
  IF x.t = "undefined" THEN <<"u", "n", "d", "e", "f", "i", "n", "e", "d">>
  ELSE x.v

(* a plausible slip: any ':' in the string makes it a shorthand *)
IsShorthandAnywhere(str) == \E i \in 1..Len(str) : str[i] = ":"

(* field[1] == ':' *)
IsShorthand(str) == Len(str) >= 2 /\ str[2] = ":"

RECURSIVE parseRef(_)
RECURSIVE createMappyViewType(_)
RECURSIVE createTruthyViewType(_)

(* new Types.view.data({label: refValue, ref: parseRef(refValue)}); an     *)
(* Error thrown by parseRef goes through                                   *)
createMappyViewType(refValue) ==
  LET ref == parseRef(Str(refValue))
  IN  IF ref.threw THEN ref
      ELSE Returned([t |-> "view.data",
                     v |-> [label |-> Str(refValue), ref |-> ref.value]])

createTruthyViewType(refValue) ==
  LET parts == Split(refValue)
      ref == parts[1]
      val == IF Len(parts) >= 2 THEN Str(parts[2]) ELSE Undefined
      arg == createMappyViewType(ref)
  IN  IF arg.threw THEN arg
      ELSE Returned([t |-> "view.condition",
                     v |-> [label |-> Str(ref \o <<"=">> \o ToChars(val)),
                            op |-> "=",
                            args |-> <<arg.value, ValueView(val)>>,
                            trueType |-> ValueView(Bool(TRUE)),
                            falseType |-> ValueView(Bool(FALSE))]])

(* a plausible slip: every shorthand that names a view builds the          *)
(* computed-view ref                                                       *)
ConstructViewRef(class, arg) ==
  IF arg.threw THEN arg
  ELSE Returned(RefValue(NewRef(IF class = "ImmutableRef"
                                  THEN class ELSE "ImmutableViewRef",
                                arg.value)))

(* new cls(arg), or the Error thrown while arg was built *)
Construct(class, arg) ==
  IF arg.threw THEN arg ELSE Returned(RefValue(NewRef(class, arg.value)))

parseRef(fld) ==
  IF fld.t = "Ref" THEN Returned(fld)
  ELSE IF fld.t \in {"null", "undefined"} THEN Returned(Null)
  ELSE IF fld.t = "string" THEN
    IF IsShorthand(fld.v) THEN
      LET refTypeCode == fld.v[1]
          refValue == SubSeq(fld.v, 3, Len(fld.v))
      IN  CASE refTypeCode = "r" ->
                 Construct("ImmutableRef", Returned(Str(refValue)))
            [] refTypeCode = "q" ->
                 Construct("ImmutableListFindRef",
                           createTruthyViewType(refValue))
            [] refTypeCode = "f" ->
                 Construct("ImmutableListFilterRef",
                           createTruthyViewType(refValue))
            [] refTypeCode = "m" ->
                 Construct("ImmutableListMapRef",
                           createMappyViewType(refValue))
            [] refTypeCode = "v" ->
                 Construct("ImmutableViewRef", Returned(Str(refValue)))
            [] OTHER -> Threw("Invalid hacky ref type")
    ELSE Construct("ImmutableRef", Returned(fld))
  ELSE
    CASE fld.v.type = "value" ->
           Construct("ImmutableRef", Returned(fld.v.value))
      [] fld.v.type = "view" ->
           Construct("ImmutableViewRef", Returned(parseField(fld.v.view)))
      [] fld.v.type = "list" ->
           (CASE fld.v.listType = "find" ->
                   Construct("ImmutableListFindRef",
                             Returned(parseField(fld.v.view)))
              [] fld.v.listType = "filter" ->
                   Construct("ImmutableListFilterRef",
                             Returned(parseField(fld.v.view)))
              [] fld.v.listType = "map" ->
                   Construct("ImmutableListMapRef",
                             Returned(parseField(fld.v.view)))
              [] OTHER -> Threw("Unknown list ref type"))
      [] OTHER -> Threw("Unknown ref type")

(* view.getLabel(): the label the view was built with; a raw view id (a    *)
(* string) has no getLabel                                                 *)
getLabel(vw) ==
  IF vw.t \in {"view.data", "view.condition"} THEN Returned(vw.v.label)
  ELSE IF vw.t = "view.parsed" THEN Returned(Str(<<"l">>))
  ELSE Threw("TypeError")

(* r.getDisplay() *)
getDisplay(r) ==
  LET m == Resolve(r.class, {"Ref", "ImmutableRef", "ImmutableViewRef",
                             "ImmutableListRef"})
  IN  IF m = "Ref" THEN Threw("go away")
      ELSE IF m = "ImmutableRef" THEN Returned(r.ref)
      ELSE getLabel(r.view)

Alphabet == {"r", "q", "f", "m", "v", "x", ":", "="}
Strings == UNION {[1..n -> Alphabet] : n \in 0..MaxFieldLen}
Descriptors ==
  {Descriptor("value", KeyStr(1), "", 0),
   Descriptor("view", Undefined, "", 1),
   Descriptor("other", Undefined, "", 0)}
    \cup {Descriptor("list", Undefined, lt, 1) :
            lt \in {"find", "filter", "map", "other"}}
Fields ==
  {Str(str) : str \in Strings}
    \cup {Undefined, Null, RefValue(NewRef("ImmutableRef", KeyStr(1)))}
    \cup Descriptors

InitParse ==
  /\ pc = "start"
  /\ field \in Fields
  /\ out = NotCalled
  /\ got = NotCalled
  /\ ListIdle
  /\ KeyIdle
  /\ TypeIdle
  /\ refA = Null
  /\ refB = Null
  /\ NextIdle
  /\ TableIdle

Do_parseRef ==
  /\ pc = "start"
  /\ pc' = "parseRef"
  /\ out' = parseRef(field)
  /\ UNCHANGED <<field, got>>
  /\ UNCHANGED listVars
  /\ UNCHANGED keyVars
  /\ UNCHANGED typeVars
  /\ UNCHANGED refVars
  /\ UNCHANGED nextVars
  /\ UNCHANGED tableVars

(* getDisplay() of the ref parseRef returned *)
Ref_getDisplay ==
  /\ pc = "parseRef"
  /\ ~out.threw
  /\ out.value.t = "Ref"
  /\ pc' = "getDisplay"
  /\ got' = getDisplay(out.value.v)
  /\ UNCHANGED <<field, out>>
  /\ UNCHANGED listVars
  /\ UNCHANGED keyVars
  /\ UNCHANGED typeVars
  /\ UNCHANGED refVars
  /\ UNCHANGED nextVars
  /\ UNCHANGED tableVars

NextParse ==
  \/ Do_parseRef
  \/ Ref_getDisplay

SpecParse == InitParse /\ [][NextParse]_vars

----------------------------------------------------------------------------
(* Properties of parseRef *)

Parsed == pc \in {"parseRef", "getDisplay"} /\ field.t = "string"
Payload == SubSeq(field.v, 3, Len(field.v))
HasColon == Len(field.v) >= 2 /\ field.v[2] = ":"
(* the part of a payload before its first '=', and the part between its    *)
(* first and second '=' (undefined when it has no '=')                     *)
FirstEq(str) ==
  CHOOSE i \in 1..Len(str) : str[i] = "=" /\ \A j \in 1..(i-1) : str[j] # "="
HasEq(str) == \E i \in 1..Len(str) : str[i] = "="
RefPart(str) == IF HasEq(str) THEN SubSeq(str, 1, FirstEq(str) - 1) ELSE str
ValuePart(str) ==
  IF HasEq(str)
    THEN Str(RefPart(SubSeq(str, FirstEq(str) + 1, Len(str))))
    ELSE Undefined
(* what parseRef returned is a ref of this class *)
Built(class) ==
  ~out.threw /\ out.value.t = "Ref" /\ out.value.v.class = class
Failed(msg) == out.threw /\ out.value = msg
(* the ref named inside a payload does not parse *)
InnerFails(str) == parseRef(Str(str)).threw

(* C8 as stated: on a string with ':' at index 1, r: gives a direct-key ref *)
(* whose key and getDisplay are the payload, f: a list-filter ref, m: a    *)
(* list-map ref, v: a computed-view ref, and every other first character   *)
(* fails as an invalid shorthand; a string without ':' at index 1 gives a  *)
(* direct-key ref whose key is the whole string.                           *)
C8_ShorthandDispatch_AsStated ==
  Parsed =>
    IF HasColon
      THEN CASE field.v[1] = "r" ->
                  /\ Built("ImmutableRef")
                  /\ out.value.v.ref = Str(Payload)
                  /\ pc = "getDisplay" => got = Returned(Str(Payload))
             [] field.v[1] = "f" -> Built("ImmutableListFilterRef")
             [] field.v[1] = "m" -> Built("ImmutableListMapRef")
             [] field.v[1] = "v" -> Built("ImmutableViewRef")
             [] OTHER -> Failed("Invalid hacky ref type")
      ELSE Built("ImmutableRef") /\ out.value.v.ref = field

(* C8, amended: on a string with ':' at index 1, r: gives a direct-key ref *)
(* whose key and getDisplay are the payload, q: a list-find ref, f: a      *)
(* list-filter ref, m: a list-map ref (q:, f: and m: failing instead when  *)
(* the ref named in their payload does not parse), v: a computed-view ref, *)
(* and every first character other than r, q, f, m, v fails as an invalid  *)
(* shorthand; a string without ':' at index 1 gives a direct-key ref whose *)
(* key is the whole string.                                                *)
C8_ShorthandDispatch ==
  Parsed =>
    IF HasColon
      THEN CASE field.v[1] = "r" ->
                  /\ Built("ImmutableRef")
                  /\ out.value.v.ref = Str(Payload)
                  /\ pc = "getDisplay" => got = Returned(Str(Payload))
             [] field.v[1] = "q" ->
                  IF InnerFails(RefPart(Payload))
                    THEN out.threw ELSE Built("ImmutableListFindRef")
             [] field.v[1] = "f" ->
                  IF InnerFails(RefPart(Payload))
                    THEN out.threw ELSE Built("ImmutableListFilterRef")
             [] field.v[1] = "m" ->
                  IF InnerFails(Payload)
                    THEN out.threw ELSE Built("ImmutableListMapRef")
             [] field.v[1] = "v" -> Built("ImmutableViewRef")
             [] OTHER -> Failed("Invalid hacky ref type")
      ELSE Built("ImmutableRef") /\ out.value.v.ref = field

(* "r:x" was parsed and the display of the ref it gave was read *)
C8_Witness ==
  /\ pc = "getDisplay"
  /\ field = Str(<<"r", ":", "x">>)
  /\ got = Returned(Str(<<"x">>))

IsQ == Parsed /\ HasColon /\ field.v[1] = "q"

(* C9 as stated: q:<ref>=<value> gives a computed-view ref wrapping the    *)
(* equality view built from the payload split on '='.                      *)
C9_QShorthand_AsStated ==
  IsQ /\ ~InnerFails(RefPart(Payload)) =>
    /\ Built("ImmutableViewRef")
    /\ out.value.v.view.t = "view.condition"

(* C9, amended: q:<ref>=<value> gives a list-find ref, a single ref,       *)
(* wrapping the equality view built from the payload split on '=' into     *)
(* (ref, expectedValue): its operator is '=', its first argument the view  *)
(* of <ref> and its second the value <value>; when <ref> does not parse    *)
(* as a ref, parseRef fails.                                               *)
C9_QShorthand ==
  IsQ =>
    IF InnerFails(RefPart(Payload)) THEN out.threw
    ELSE /\ Built("ImmutableListFindRef")
         /\ isSingleRef(out.value.v)
         /\ LET vw == out.value.v.view
            IN  /\ vw.t = "view.condition"
                /\ vw.v.op = "="
                /\ vw.v.args[1].t = "view.data"
                /\ vw.v.args[1].v.label = Str(RefPart(Payload))
                /\ vw.v.args[1].v.ref = parseRef(Str(RefPart(Payload))).value
                /\ vw.v.args[2] = ValueView(ValuePart(Payload))

(* "q:x=v" was parsed into a ref *)
C9_Witness ==
  /\ pc = "parseRef"
  /\ field = Str(<<"q", ":", "x", "=", "v">>)
  /\ ~out.threw

----------------------------------------------------------------------------
(* Properties of the Ref classes *)

FiveVariants ==
  {"ImmutableRef", "ImmutableViewRef", "ImmutableListFindRef",
   "ImmutableListFilterRef", "ImmutableListMapRef"}

(* C6: for every ref variant isSingleRef() is the negation of isMultiRef(); *)
(* list-filter and list-map refs are multi, direct-key, computed-view and  *)
(* list-find refs are single.                                              *)
C6_SingleXorMulti ==
  pc = "isMultiRef" /\ refA.class \in FiveVariants =>
    /\ out.value = ~got.value
    /\ got.value = (refA.class \in {"ImmutableListFilterRef",
                                     "ImmutableListMapRef"})

(* both questions were put to a list-filter ref *)
C6_Witness ==
  /\ pc = "isMultiRef"
  /\ refA.class = "ImmutableListFilterRef"
  /\ got.value = TRUE

IsKeyRef(r) == r.class = "ImmutableRef" /\ r.ref.t = "string"
IsViewRef(r) == r.class # "ImmutableRef" /\ r.view.t \in {"view", "string"}
(* the uniqueId a view carries: none (0) for a raw view id *)
Carried(r) == IF r.view.t = "view" THEN r.view.v.uniqueId ELSE 0

(* C7: two direct-key refs are equal iff their key strings are equal, two  *)
(* view-bearing refs are equal iff their views carry the same uniqueId,    *)
(* and two such refs that are equal have the same hashCode.                *)
C7_EqualsAndHash ==
  /\ pc \in {"equals", "hashCode"} /\ IsKeyRef(refA) /\ IsKeyRef(refB) =>
       ~out.threw /\ out.value = (refA.ref.v = refB.ref.v)
  /\ pc \in {"equals", "hashCode"} /\ IsViewRef(refA) /\ IsViewRef(refB) =>
       ~out.threw /\ out.value = (Carried(refA) = Carried(refB))
  /\ pc = "hashCode" /\ ~out.threw /\ out.value = TRUE
        /\ ((IsKeyRef(refA) /\ IsKeyRef(refB))
              \/ (IsViewRef(refA) /\ IsViewRef(refB))) =>
       /\ ~got[1].threw /\ ~got[2].threw
       /\ got[1].value = got[2].value

(* two refs of different list classes, built from two view instances with  *)
(* the same contents and the same uniqueId, were found equal and hashed    *)
C7_Witness ==
  /\ pc = "hashCode"
  /\ refA.class = "ImmutableListFindRef"
  /\ refB.class = "ImmutableListFilterRef"
  /\ refA.view.t = "view" /\ refB.view.t = "view"
  /\ out.value = TRUE
  /\ got[1].value = got[2].value

----------------------------------------------------------------------------
(* Properties of the list refs *)

Matches(i) == applyView(view, list[i])
(* the call was given a list type and an Immutable.List *)
ValidData == listType = "list" /\ listKind = "List"

(* C1: ImmutableListFilterRef.setValue returns a list of the input's size  *)
(* in which every position whose item passes the view holds newItem and    *)
(* every other position holds its original item.                           *)
C1_FilterReplacesMatchingOnly ==
  pc = "filter.setValue" /\ ValidData =>
    /\ ~out.threw
    /\ Len(out.value) = Len(list)
    /\ \A i \in 1..Len(list) :
         out.value[i] = (IF Matches(i) THEN newItem ELSE list[i])

(* C2: ImmutableListFindRef.setValue is an upsert by predicate: when some  *)
(* item passes the view, the first such position alone is replaced by      *)
(* newItem and the size is unchanged; when none passes, the result is the  *)
(* input list with newItem appended.                                       *)
C2_FindUpsert ==
  pc = "find.setValue" /\ ValidData =>
    /\ ~out.threw
    /\ IF \E i \in 1..Len(list) : Matches(i)
         THEN /\ Len(out.value) = Len(list)
              /\ \A i \in 1..Len(list) :
                   out.value[i] =
                     (IF Matches(i) /\ \A j \in 1..(i-1) : ~Matches(j)
                        THEN newItem ELSE list[i])
         ELSE out.value = list \o <<newItem>>

(* several items pass the view, an earlier and a later one that differ     *)
(* from newItem, and the call has returned                                 *)
C2_Witness ==
  /\ pc = "find.setValue"
  /\ ValidData
  /\ \E i, j \in 1..Len(list) :
       i < j /\ Matches(i) /\ Matches(j) /\ list[i] # newItem /\ list[j] # newItem

(* C10: setValue on a computed-view ref and on a list-map ref throws        *)
(* whatever the value and the new value are, returns nothing, and leaves   *)
(* the value it was given as it was.                                       *)
C10_ReadOnlyRefsThrow ==
  /\ [](pc \in {"view.setValue", "map.setValue"} =>
         out.threw /\ out.value = "Not yet implemented")
  /\ [][pc' \in {"view.setValue", "map.setValue"} =>
          list' = list /\ newItem' = newItem]_vars

(* a list-map ref was asked to write into a list that holds items *)
C10_Witness ==
  /\ pc = "map.setValue"
  /\ Len(list) > 0
  /\ out.threw

----------------------------------------------------------------------------
(* Properties of the direct-key ref *)

(* C5: for a present container, a non-empty key k and any value v, reading *)
(* k from what setValue returned gives v, every other key reads as it did  *)
(* in the container, and setValue leaves the container itself as it was.   *)
C5_DirectKeyRoundTrip ==
  /\ [](pc = "ref.getValue" /\ ~Falsy(container) /\ ~Falsy(key) =>
         /\ got = Returned(childValue)
         /\ \A j \in Keys \ {key} :
              MapGet(out.value, j) = MapGet(container, j))
  /\ [][pc' = "ref.setValue" => container' = container]_vars

(* the container already held another entry at the key, and another key    *)
(* beside it, when the value was written and read back                     *)
C5_Witness ==
  /\ pc = "ref.getValue"
  /\ ~Falsy(container)
  /\ key \in DOMAIN container.v
  /\ container.v[key] # childValue
  /\ DOMAIN container.v # {key}

----------------------------------------------------------------------------
(* Properties of the data type *)

Absent(x) == x.t \in {"undefined", "null"}

(* C3: a scalar type without a defaultValue, validating an absent value    *)
(* (undefined or null), returns a ValidationError with the `required`      *)
(* message and the type when required and not generated, and returns no    *)
(* error when generated or when not required.                              *)
C3_RequiredWithoutDefault ==
  pc = "validate" /\ ~dataType.composite
      /\ options.defaultValue = Undefined /\ Absent(value) =>
    /\ ~out.threw
    /\ ~cbCalled
    /\ IF options.required.v /\ ~options.generated.v
         THEN /\ out.value.t = "ValidationError"
              /\ out.value.v.message = "This field is required"
              /\ out.value.v.type = dataType
         ELSE out.value = Undefined

(* null was validated by a required, not generated scalar type that has no *)
(* default, with a continuation at hand, and the error came back           *)
C3_Witness ==
  /\ pc = "validate"
  /\ ~dataType.composite
  /\ options.defaultValue = Undefined
  /\ value = Null
  /\ options.required.v /\ ~options.generated.v
  /\ callback # Undefined
  /\ out.value.t = "ValidationError"

(* C4 as stated: for a type with defaultValue = X, X present (neither      *)
(* undefined nor null), validate(X) returns no error without invoking the  *)
(* continuation, whatever required and generated are.                      *)
C4_DefaultShortCircuit_AnyPresent ==
  pc = "validate" /\ ~Absent(options.defaultValue)
      /\ value = options.defaultValue =>
    /\ out = Returned(Undefined)
    /\ ~cbCalled

(* the type keeps X as its default and takes X for a value: X is a number  *)
(* other than NaN, or an Immutable collection, not a plain object or array *)
(* (which the constructor converts); for a composite type X is a non-empty *)
(* collection                                                              *)
KeptAndPresent(type, x) ==
  /\ x.t \in {"number", "string", "boolean", "Immutable"}
  /\ type.composite => x.t = "Immutable" /\ Size(x) > 0

(* C4, amended: for a type with defaultValue = X, where X is a value the   *)
(* type stores unchanged and takes for present, validate(X) returns no     *)
(* error without invoking the continuation, whatever required and          *)
(* generated are.                                                          *)
C4_DefaultShortCircuit ==
  pc = "validate" /\ KeptAndPresent(dataType, options.defaultValue)
      /\ value = options.defaultValue =>
    /\ out = Returned(Undefined)
    /\ ~cbCalled

(* a required type validated its own default, a number, with a             *)
(* continuation at hand that would have returned an error                  *)
C4_Witness ==
  /\ pc = "validate"
  /\ options.defaultValue = Num(1)
  /\ value = Num(1)
  /\ options.required.v
  /\ callback = Fn(Str(<<"e">>))
  /\ ~cbCalled

(* C12 as stated: a non-generated, required type whose defaultValue is      *)
(* present returns no error for every absent supplied value, undefined or  *)
(* null.                                                                   *)
C12_DefaultBeforePresence_AsStated ==
  pc = "validate" /\ ~options.generated.v /\ options.required.v
      /\ ~Absent(options.defaultValue) /\ Absent(value) =>
    out = Returned(Undefined)

(* the default the type holds is one it takes for a value: not NaN, and    *)
(* for a composite type a non-empty collection                             *)
DefaultTakenForPresent(type) ==
  /\ type.options.defaultValue.t \notin {"undefined", "null", "NaN"}
  /\ type.composite =>
       /\ type.options.defaultValue.t = "Immutable"
       /\ Size(type.options.defaultValue) > 0

(* C12, amended: for a non-generated, required type whose defaultValue is  *)
(* one the type takes for present, validate of a supplied undefined        *)
(* returns no error and does not reach the continuation, because getValue  *)
(* puts the default in its place before presence is decided; a supplied    *)
(* null is kept by getValue and validates to the required error.           *)
C12_DefaultBeforePresence ==
  pc = "validate" /\ ~options.generated.v /\ options.required.v
      /\ DefaultTakenForPresent(dataType) =>
    /\ value = Undefined => out = Returned(Undefined) /\ ~cbCalled
    /\ value = Null =>
         /\ out.value.t = "ValidationError"
         /\ out.value.v.message = "This field is required"

(* undefined was validated by a required type with a number for default,   *)
(* with a continuation at hand that would have returned an error           *)
C12_Witness ==
  /\ pc = "validate"
  /\ options.required.v /\ ~options.generated.v
  /\ options.defaultValue = Num(1)
  /\ value = Undefined
  /\ callback = Fn(Str(<<"e">>))
  /\ out = Returned(Undefined)

----------------------------------------------------------------------------
(* C14: equals is total and symmetric over all refs: for any two refs a    *)
(* and b, a.equals(b) and b.equals(a) both return, with the same boolean,  *)
(* and a direct-key ref is never equal to a ref that holds a view.         *)
C14_EqualsTotalSymmetric ==
  pc = "equalsBack" =>
    /\ ~out.threw
    /\ ~got.threw
    /\ out.value = got.value
    /\ (refA.class = "ImmutableRef") # (refB.class = "ImmutableRef") =>
         out.value = FALSE

----------------------------------------------------------------------------
Descriptive ==
  {"Cannot reference a list with a non-list based data type",
   "Cannot reference a non-list with a list ref"}

(* C11: getValue and setValue of the list-find, list-filter and list-map   *)
(* refs, given a data type that is not a list type or a value that is      *)
(* absent or not an Immutable collection, fail with a descriptive error    *)
(* before the view is evaluated on any item.                               *)
C11_ListRefPrecondition ==
  pc \in {"find.getValue", "filter.getValue", "map.getValue",
          "find.setValue", "filter.setValue", "map.setValue"}
      /\ ~ValidData =>
    /\ out.threw
    /\ out.value \in Descriptive
    /\ ~evaluated

----------------------------------------------------------------------------
(* ImmutableDataType: the descent helpers getNextField,                    *)
(* getNextFieldAndValue and setNextValue                                   *)

(* A child field: a scalar DataType, the base ImmutableDataType, an object *)
(* that is no data type, or no field at all (undefined, null).             *)
Field(class, type) == [t |-> class, v |-> type]
FieldName == "child"

(* what `new Error(...)` carries: the message's fixed part, and the field  *)
(* name and constructor name its template reads                            *)
CannotCall(method, fld) == Threw(<<"Cannot call", method, FieldName, fld.t>>)
NotImplemented(method) == Threw(<<"is not implemented", method, FieldName>>)
TypeError == Threw(<<"TypeError">>)

Absent13(fld) == fld.t \in {"undefined", "null"}
(* field.getField, field.getFieldAndValue, field.setValue: is the property *)
(* there?  DataType defines getField and getFieldAndValue; only            *)
(* ImmutableDataType defines setValue.                                     *)
HasMethod(fld, method) ==
  CASE fld.t = "DataType" -> method \in {"getField", "getFieldAndValue"}
    [] fld.t = "ImmutableDataType" ->
         method \in {"getField", "getFieldAndValue", "setValue"}
    [] OTHER -> FALSE

(* field.getField(refs) *)
Field_getField(fld, chain) ==
  IF fld.t = "DataType" THEN Returned(fld) ELSE NotImplemented("getField")

(* field.getFieldAndValue(value, refs) *)
Field_getFieldAndValue(fld, x, chain) ==
  IF fld.t = "DataType"
    THEN Returned([field |-> fld, value |-> getValue(fld.v, x, Undefined)])
    ELSE NotImplemented("getFieldAndValue")

(* field.setValue(oldValue, refs, newValue) *)
Field_setValue(fld, old, chain, new) == NotImplemented("setField")

getNextField(fld, chain) ==
  IF Len(chain) = 0 THEN Returned(fld)
  ELSE IF ~Absent13(fld) /\ HasMethod(fld, "getField")
    THEN Field_getField(fld, chain)
  ELSE IF Absent13(fld) THEN TypeError
  ELSE CannotCall("getField", fld)

getNextFieldAndValue(fld, x, chain) ==
  IF Len(chain) = 0 THEN Returned([field |-> fld, value |-> x])
  ELSE IF ~Absent13(fld) /\ HasMethod(fld, "getFieldAndValue")
    THEN Field_getFieldAndValue(fld, x, chain)
  ELSE IF Absent13(fld) THEN TypeError
  ELSE CannotCall("getFieldAndValue", fld)

setNextValue(fld, old, new, chain) ==
  IF Len(chain) = 0 THEN Returned(new)
  ELSE IF Absent13(fld) THEN TypeError
  ELSE IF HasMethod(fld, "setValue") THEN Field_setValue(fld, old, chain, new)
  ELSE CannotCall("setValue", fld)

ChildTypes ==
  {NewDataType(FALSE, o) :
     o \in [required : {Bool(FALSE)}, generated : {Bool(FALSE)},
            defaultValue : {Undefined, Num(0)}]}
ChildFields ==
  {Undefined, Null, Field("Object", Undefined)}
    \cup {Field("DataType", ty) : ty \in ChildTypes}
    \cup {Field("ImmutableDataType",
                NewDataType(TRUE, [required |-> Bool(FALSE),
                                   generated |-> Bool(FALSE),
                                   defaultValue |-> Undefined]))}
Chains == UNION {[1..n -> {KeyStr(1)}] : n \in 0..MaxRefs}

InitNext ==
  /\ pc = "start"
  /\ childField \in ChildFields
  /\ refs \in Chains
  /\ oldValue \in {Undefined, Num(1)}
  /\ newValue \in {Undefined, Num(2)}
  /\ out = NotCalled
  /\ got = NotCalled
  /\ ListIdle
  /\ KeyIdle
  /\ TypeIdle
  /\ RefIdle
  /\ ParseIdle
  /\ TableIdle

Do_getNextField ==
  /\ pc = "start"
  /\ pc' = "getNextField"
  /\ out' = getNextField(childField, refs)
  /\ UNCHANGED <<got, nextVars, listVars, keyVars, typeVars, refVars, parseVars,
               tableVars>>

Do_getNextFieldAndValue ==
  /\ pc = "start"
  /\ pc' = "getNextFieldAndValue"
  /\ out' = getNextFieldAndValue(childField, oldValue, refs)
  /\ UNCHANGED <<got, nextVars, listVars, keyVars, typeVars, refVars, parseVars,
               tableVars>>

Do_setNextValue ==
  /\ pc = "start"
  /\ pc' = "setNextValue"
  /\ out' = setNextValue(childField, oldValue, newValue, refs)
  /\ UNCHANGED <<got, nextVars, listVars, keyVars, typeVars, refVars, parseVars,
               tableVars>>

NextNext ==
  \/ Do_getNextField
  \/ Do_getNextFieldAndValue
  \/ Do_setNextValue

SpecNext == InitNext /\ [][NextNext]_vars

(* the method each helper hands the rest of the chain to *)
MethodOf(helper) ==
  CASE helper = "getNextField" -> "getField"
    [] helper = "getNextFieldAndValue" -> "getFieldAndValue"
    [] helper = "setNextValue" -> "setValue"

(* what the child's own method gives for the rest of the chain *)
Delegated(helper) ==
  CASE helper = "getNextField" -> Field_getField(childField, refs)
    [] helper = "getNextFieldAndValue" ->
         Field_getFieldAndValue(childField, oldValue, refs)
    [] helper = "setNextValue" ->
         Field_setValue(childField, oldValue, refs, newValue)

(* C13: with an empty chain the helpers return the child field, the pair   *)
(* {field, value} and newValue; with a non-empty chain they hand it to the *)
(* child's getField / getFieldAndValue / setValue, and when the child has  *)
(* no such method, an absent child included, they throw the "Cannot call"  *)
(* error.                                                                  *)
C13_DescentHelpers ==
  pc \in {"getNextField", "getNextFieldAndValue", "setNextValue"} =>
    IF Len(refs) = 0
      THEN /\ pc = "getNextField" => out = Returned(childField)
           /\ pc = "getNextFieldAndValue" =>
                out = Returned([field |-> childField, value |-> oldValue])
           /\ pc = "setNextValue" => out = Returned(newValue)
    ELSE IF childField.t \in {"DataType", "ImmutableDataType"}
              /\ HasMethod(childField, MethodOf(pc))
      THEN out = Delegated(pc)
    ELSE /\ out.threw
         /\ out.value[1] = "Cannot call"
         /\ out.value[2] = MethodOf(pc)

----------------------------------------------------------------------------
(* The editable table (EditableTable) and the cell renderer (DataRenderer) *)

Rows == 0..(NumRows - 1)
ColA == Str(<<"a">>)
ColB == Str(<<"b">>)
Cols == {ColA, ColB}
Cells == {Null, Num(1)}

(* props.dataType: a composite type with one field per column *)
TableType(requiredCols, excluded) ==
  [fields |-> [r \in Cols |->
                 NewDataType(FALSE, [required |-> Bool(r \in requiredCols),
                                     generated |-> Bool(FALSE),
                                     defaultValue |-> Undefined])],
   excluded |-> excluded]

isExcluded(type) == type.excluded

(* exclude(model): undefined for an excluded type, else the model *)
exclude(type, model) == IF isExcluded(type) THEN Undefined ELSE model

(* dataType.setValue(model, ref, value): the model with the cell replaced *)
Table_setValue(model, ref, x) == Map([model.v EXCEPT ![ref] = x])

(* an error of the composite type names the ref of the field it is about *)
ErrorAt(ref, error) == [t |-> "ValidationError", v |-> [ref |-> ref, error |-> error.v]]

(* dataType.validateSingle(model, ref): the list of the errors of the      *)
(* field at ref, each field validated as DataType.validate does            *)
Table_validateSingle(type, model, ref) ==
  LET error == validate(type.fields[ref], model.v[ref], Undefined).result.value
  IN  IF error.t = "ValidationError" THEN <<ErrorAt(ref, error)>> ELSE <<>>

(* dataType.validate(model): the list of the errors of all the fields *)
Table_validate(type, model) ==
  Table_validateSingle(type, model, ColA) \o Table_validateSingle(type, model, ColB)

(* The maps of the state (changes, blurs, dirty, errors) are read through  *)
(* getIn([index, ref]) only: a map is the function from the row and the    *)
(* ref to the entry, undefined where there is none.                        *)
EmptyRow == [r \in Cols |-> Undefined]
EmptyMap == [i \in Rows |-> EmptyRow]
GetIn(m, i, r) == m[i][r]
SetIn(m, i, r, x) == [m EXCEPT ![i][r] = x]
RemoveIn(m, i, r) == [m EXCEPT ![i][r] = Undefined]
MapSetRow(m, i, row) == [m EXCEPT ![i] = row]
MapRemove(m, i) == [m EXCEPT ![i] = EmptyRow]

(* createInitialState(props): cacheModels returns the rows of props.models *)
(* as they are when no defaultValue and no disabled map is given           *)
createInitialState(pr) ==
  [changes |-> EmptyMap, blurs |-> EmptyMap, dirty |-> EmptyMap,
   errors |-> EmptyMap, models |-> pr.models]

(* this.setState(partial): the fields the partial state names replace     *)
(* those of the state, the others stay                                     *)
Partial(names, st) == [names |-> names, st |-> st]
Merge(st, partial) ==
  [changes |-> IF "changes" \in partial.names THEN partial.st.changes ELSE st.changes,
   blurs |-> IF "blurs" \in partial.names THEN partial.st.blurs ELSE st.blurs,
   dirty |-> IF "dirty" \in partial.names THEN partial.st.dirty ELSE st.dirty,
   errors |-> IF "errors" \in partial.names THEN partial.st.errors ELSE st.errors,
   models |-> IF "models" \in partial.names THEN partial.st.models ELSE st.models]

(* the row callback onChange(ref, value): the partial state it sets, from  *)
(* the state it reads                                                      *)
Row_onChange(pr, st, index, ref, x) ==
  LET oldModel == st.models[index]
      newModel == Table_setValue(oldModel, ref, x)
  IN  Partial({"changes", "dirty", "models"},
              [st EXCEPT !.changes = SetIn(st.changes, index, ref, x),
                         !.dirty = SetIn(st.dirty, index, ref, Bool(TRUE)),
                         !.models = [st.models EXCEPT ![index] = newModel]])

(* the row callback onBlur(ref) *)
Row_onBlur(pr, st, index, ref) ==
  IF ~Falsy(GetIn(st.dirty, index, ref)) \/ ~Falsy(GetIn(st.changes, index, ref))
    THEN LET errors == Table_validateSingle(pr.dataType, st.models[index], ref)
             errorMap == IF Len(errors) = 0
                           THEN RemoveIn(st.errors, index, ref)
                           ELSE SetIn(st.errors, index, ref, errors[Len(errors)])
         IN  Partial({"blurs", "errors"},
                     [st EXCEPT !.blurs = SetIn(st.blurs, index, ref, Bool(TRUE)),
                                !.errors = errorMap])
    ELSE Partial({}, st)

(* the entry of the row map isValid builds: the error whose ref is r *)
ErrorFor(errors, r) ==
  IF \E k \in 1..Len(errors) : errors[k].v.ref = r
    THEN errors[CHOOSE k \in 1..Len(errors) :
                  /\ errors[k].v.ref = r
                  /\ \A j \in (k + 1)..Len(errors) : errors[j].v.ref # r]
    ELSE Undefined

(* isValid(index): what it returns and the partial state it sets.  The     *)
(* entry it sets at blurs[index] holds true at the refs of the errors.     *)
isValid(pr, st, index) ==
  LET model == st.models[index]
      validationErrors == Table_validate(pr.dataType, model)
  IN  [valid |-> Len(validationErrors) = 0,
       partial |->
         IF Len(validationErrors) # 0
           THEN Partial({"errors", "blurs"},
                  [st EXCEPT
                     !.errors = MapSetRow(st.errors, index,
                                  [r \in Cols |-> ErrorFor(validationErrors, r)]),
                     !.blurs = MapSetRow(st.blurs, index,
                                  [r \in Cols |->
                                     IF ErrorFor(validationErrors, r) # Undefined
                                       THEN Bool(TRUE) ELSE Undefined])])
           ELSE Partial({"errors"},
                  [st EXCEPT !.errors = MapRemove(st.errors, index)])]

NoCall == [called |-> FALSE, index |-> 0, model |-> Undefined]
Call(index, model) == [called |-> TRUE, index |-> index, model |-> model]

(* a plausible slip: the row is handed over whatever isValid returns *)
onSubmitUnvalidated(pr, st, index) ==
  IF ~pr.hasOnSubmit
    THEN [state |-> st, submitted |-> NoCall]
    ELSE LET v == isValid(pr, st, index)
         IN  [state |-> Merge(st, v.partial),
              submitted |-> Call(index, exclude(pr.dataType, st.models[index]))]

(* onSubmit(index): the state once the handler has returned, and the call  *)
(* made to props.onSubmit                                                  *)
onSubmit(pr, st, index) ==
  IF ~pr.hasOnSubmit
    THEN [state |-> st, submitted |-> NoCall]
    ELSE LET v == isValid(pr, st, index)
         IN  [state |-> Merge(st, v.partial),
              submitted |->
                IF v.valid
                  THEN Call(index, exclude(pr.dataType, st.models[index]))
                  ELSE NoCall]

(* DataRenderer.onBlur: the row's onChange, then the row's onBlur.  Inside *)
(* a React batch this.state stays what it was until the handler returns,   *)
(* and the partial states are then merged in the order they were set;      *)
(* outside a batch each setState is applied at once.                       *)
DataRenderer_onBlur(pr, st, index, ref, x, inBatch) ==
  LET changed == Merge(st, Row_onChange(pr, st, index, ref, x))
  IN  IF inBatch
        THEN Merge(changed, Row_onBlur(pr, st, index, ref))
        ELSE Merge(changed, Row_onBlur(pr, changed, index, ref))

FilledRow(x) == Map([r \in Cols |-> x])
TableProps ==
  [dataType : {TableType(rq, ex) :
                 rq \in {{ColA}, {ColA, ColB}}, ex \in BOOLEAN},
   hasOnSubmit : BOOLEAN,
   models : {[i \in Rows |-> m] : m \in {FilledRow(Null), FilledRow(Num(1))}}]

InitTable ==
  /\ pc = "start"
  /\ props \in TableProps
  /\ state = createInitialState(props)
  /\ submitted = NoCall
  /\ rowIndex = 0
  /\ cellRef = Undefined
  /\ batched = FALSE
  /\ out = NotCalled
  /\ got = NotCalled
  /\ ListIdle
  /\ KeyIdle
  /\ TypeIdle
  /\ RefIdle
  /\ ParseIdle
  /\ NextIdle

(* a cell loses focus, or Enter is pressed in it *)
Cell_onBlur ==
  \E index \in Rows, ref \in Cols, x \in Cells, inBatch \in BOOLEAN :
    /\ pc' = "DataRenderer.onBlur"
    /\ state' = DataRenderer_onBlur(props, state, index, ref, x, inBatch)
    /\ rowIndex' = index
    /\ cellRef' = ref
    /\ batched' = inBatch
    /\ submitted' = NoCall
    /\ UNCHANGED <<props, out, got, listVars, keyVars, typeVars, refVars,
                   parseVars, nextVars>>

(* a renderer calls the row's onChange alone *)
Cell_onChange ==
  \E index \in Rows, ref \in Cols, x \in Cells :
    /\ pc' = "onChange"
    /\ state' = Merge(state, Row_onChange(props, state, index, ref, x))
    /\ rowIndex' = 0
    /\ cellRef' = Undefined
    /\ batched' = FALSE
    /\ submitted' = NoCall
    /\ UNCHANGED <<props, out, got, listVars, keyVars, typeVars, refVars,
                   parseVars, nextVars>>

(* a renderer calls the row's onBlur alone *)
Cell_onBlurOnly ==
  \E index \in Rows, ref \in Cols :
    /\ pc' = "onBlur"
    /\ state' = Merge(state, Row_onBlur(props, state, index, ref))
    /\ rowIndex' = 0
    /\ cellRef' = Undefined
    /\ batched' = FALSE
    /\ submitted' = NoCall
    /\ UNCHANGED <<props, out, got, listVars, keyVars, typeVars, refVars,
                   parseVars, nextVars>>

(* the save button of a row, or the row's submit callback *)
Table_onSubmit ==
  \E index \in Rows :
    /\ pc' = "onSubmit"
    /\ state' = onSubmit(props, state, index).state
    /\ submitted' = onSubmit(props, state, index).submitted
    /\ rowIndex' = index
    /\ cellRef' = Undefined
    /\ batched' = FALSE
    /\ UNCHANGED <<props, out, got, listVars, keyVars, typeVars, refVars,
                   parseVars, nextVars>>

NextTable ==
  \/ Cell_onBlur
  \/ Cell_onChange
  \/ Cell_onBlurOnly
  \/ Table_onSubmit

SpecTable == InitTable /\ [][NextTable]_vars

(* the entry errors[index][ref] that validating the model at hand gives *)
ErrorOf(model, ref) ==
  LET errors == Table_validateSingle(props.dataType, model, ref)
  IN  IF Len(errors) = 0 THEN Undefined ELSE errors[Len(errors)]

(* C15: when DataRenderer.onBlur has run inside a batch, the row's onBlur  *)
(* has validated the model that holds the new value: errors[index][ref] is *)
(* what validating the new model at ref gives, on a first edit too.        *)
C15_BlurValidatesNewValue ==
  (pc = "DataRenderer.onBlur" /\ batched) =>
    GetIn(state.errors, rowIndex, cellRef)
      = ErrorOf(state.models[rowIndex], cellRef)

(* C16: onSubmit(index) calls props.onSubmit only when validating the      *)
(* row's model gives no error, with the row index and the model passed     *)
(* through exclude; when there are errors props.onSubmit is not called and *)
(* errors[index] holds an entry.                                           *)
C16_SubmitOnlyValid ==
  pc = "onSubmit" =>
    LET model == state.models[rowIndex]
        validationErrors == Table_validate(props.dataType, model)
    IN  /\ submitted.called =>
              /\ Len(validationErrors) = 0
              /\ submitted.index = rowIndex
              /\ submitted.model = exclude(props.dataType, model)
        /\ Len(validationErrors) # 0 /\ props.hasOnSubmit =>
              /\ ~submitted.called
              /\ \E r \in Cols : GetIn(state.errors, rowIndex, r) # Undefined
        /\ Len(validationErrors) = 0 /\ props.hasOnSubmit => submitted.called

(* a row that was edited is submitted, and one whose model has an error is *)
(* held back                                                               *)
C16_Witness ==
  /\ pc = "onSubmit"
  /\ submitted.called
  /\ submitted.index = rowIndex
  /\ ~isExcluded(props.dataType)
  /\ \E r \in Cols : GetIn(state.dirty, rowIndex, r) # Undefined
  /\ props.models[rowIndex] = FilledRow(Null)

====
